---- MODULE Spec2Model ----
(***************************************************************************)
(* Rescue / Poseidon permutation round functions, the generic sponge and   *)
(* the fixed-length hash entry points of rescue-poseidon.                  *)
(*                                                                         *)
(* Three specifications:                                                   *)
(*   SpecRound   one call of rescue_round_function or of                   *)
(*               gadget_poseidon_round_function, statement by statement    *)
(*   SpecSponge  a GenericSponge: absorb calls followed by squeeze calls   *)
(*   SpecHash    two fixed-length hash calls, one after the other          *)
(* The prime field is scaled down to the integers modulo Modulus.          *)
(***************************************************************************)
EXTENDS Integers, Sequences, FiniteSets

VARIABLES
    fn,        \* which round function runs: "rescue", "poseidon" ("none": no call)
    params,    \* the P: HashParams value handed to the round function
    pc,        \* position inside the round function
    state,     \* state: [E::Fr; W] (rescue) or [LinearCombination<E>; W] (gadget)
    input,     \* the field values of the state at entry
    cs,        \* the constraint system: witness values of its variables, gate count
    round,     \* loop counter of the current loop
    cpr,       \* constants_for_partial_rounds
    trace,     \* the operations applied to the state so far
    calls,     \* the HashParams accessors called so far
    csFail,    \* the constraint-system call that failed ("none": none did)
    result,    \* what the call returned or how it died
    sponge,    \* GenericSponge: width, rate, state, pending buffer
    squeezed,  \* the last squeeze: request, output, number of re-permutations
    hash       \* the two fixed-length hash calls

vars == <<fn, params, pc, state, input, cs, round, cpr, trace, calls, csFail,
          result, sponge, squeezed, hash>>

roundVars == <<fn, params, pc, state, input, cs, round, cpr, trace, calls,
               csFail, result>>

(***************************************************************************)
(* Bounds of the model.                                                    *)
(***************************************************************************)
Modulus == 17          \* the field: integers modulo Modulus
MaxInput == 2          \* state lanes at entry are drawn from 0..MaxInput
MaxFull == 4           \* number_of_full_rounds is drawn from 0..MaxFull
MaxPartial == 5        \* number_of_partial_rounds is drawn from 1..MaxPartial
MaxWidth == 3          \* sponge: STATE_WIDTH is drawn from 2..MaxWidth
MaxElem == 1           \* sponge: absorbed elements are drawn from 0..MaxElem
MaxAbsorbed == 4       \* sponge: total number of absorbed elements
MaxChunk == 2          \* sponge: length of the slice of one absorb call
MaxSqueeze == 6        \* sponge: squeeze(Some(n)) with n in 0..MaxSqueeze
MaxLen == 2            \* hash: the declared input length L is in 0..MaxLen

(***************************************************************************)
(* Program constants.                                                      *)
(***************************************************************************)
STATE_WIDTH == 3
RATE == 2
Alpha == 3
AlphaInv == 11
PadValue == 0

(***************************************************************************)
(* Field arithmetic (franklin_crypto::bellman::Field).                     *)
(***************************************************************************)
FAdd(a, b) == (a + b) % Modulus
FMul(a, b) == (a * b) % Modulus

RECURSIVE FPow(_, _)
FPow(a, e) == IF e = 0 THEN 1 % Modulus ELSE FMul(a, FPow(a, e - 1))

RECURSIVE FSum(_, _)
\* sum of f[1..n]
FSum(f, n) == IF n = 0 THEN 0 ELSE FAdd(FSum(f, n - 1), f[n])

(***************************************************************************)
(* Parameter tables.  The tables are data; the model uses fixed tables     *)
(* over the scaled-down field.  Round indices are zero-based as in the     *)
(* source, lanes are 1..W.                                                 *)
(***************************************************************************)
\* RescueParams::round_constants[i] / PoseidonParams::optimized_round_constants[i]
RoundConstants(i, w) == [j \in 1..w |-> (3 * i + 2 * j + 1) % Modulus]
OptimizedRoundConstants(i, w) == [j \in 1..w |-> (5 * i + j + 2) % Modulus]
\* mds_matrix
MdsMatrix(w) == [i \in 1..w |-> [j \in 1..w |-> (i * i + 2 * j + 1) % Modulus]]
\* optimized_mds_matrixes().0
MPrime(w) ==
    [i \in 1..w |-> [j \in 1..w |->
        IF i = 1 \/ j = 1 THEN (IF i = j THEN 1 ELSE 0)
        ELSE (i + 3 * j) % Modulus]]
\* optimized_mds_matrixes().1[k]: dense first row and column, identity elsewhere
SparseMatrix(k, w) ==
    [i \in 1..w |-> [j \in 1..w |->
        IF i = 1 THEN (2 * k + j + 1) % Modulus
        ELSE IF j = 1 THEN (k + 3 * i) % Modulus
        ELSE IF i = j THEN 1 ELSE 0]]

InapplicableAccessors ==
    {"number_of_partial_rounds", "optimized_mds_matrixes",
     "optimized_round_constants", "alpha", "alpha_inv"}

(***************************************************************************)
(* Native algebraic primitives (crate::common).                            *)
(***************************************************************************)
\* sbox(power, state): every lane raised to power
sbox(power, st) == [i \in DOMAIN st |-> FPow(st[i], power)]

\* mmul_assign(matrix, state): dense product
mmul_assign(m, st) ==
    [i \in DOMAIN st |->
        FSum([j \in DOMAIN st |-> FMul(m[i][j], st[j])], Len(st))]

\* state.iter_mut().zip(c.iter()).for_each(|(s, c)| s.add_assign(c))
AddConstants(st, c) == [i \in DOMAIN st |-> FAdd(st[i], c[i])]

(***************************************************************************)
(* rescue_round_function                                                   *)
(***************************************************************************)
\* the loop bound: 0..2 * params.number_of_full_rounds()
RescueRounds(p) == 2 * p.full_rounds

\* the S-box exponent of a round: alpha_inv on even rounds, alpha on odd ones
\* (variant: the two exponents exchanged)
RescueExponentSwapped(r) == IF r % 2 = 0 THEN "alpha" ELSE "alpha_inv"
RescueExponent(r) == IF r % 2 = 0 THEN "alpha_inv" ELSE "alpha"

ExponentValue(name) == IF name = "alpha" THEN Alpha ELSE AlphaInv

\* the index read after the linear layer of a round
\* (variant: the index of the round itself)
RescueNextConstantSame(r) == r
RescueNextConstant(r) == r + 1

\* RescueParams::constants_of_round: self.round_constants[round]
InRange(p, i) == i < p.rc_len

\* S-box and linear layer of one round
RescueSboxMds(st, r) ==
    mmul_assign(MdsMatrix(Len(st)), sbox(ExponentValue(RescueExponent(r)), st))

Log(op, idx) == [op |-> op, idx |-> idx]

\* line 125: assert_eq!(params.hash_family(), HashFamily::Rescue)
RAssert ==
    /\ fn = "rescue" /\ pc = "start"
    /\ calls' = calls \cup {"hash_family"}
    /\ IF params.family = "Rescue"
       THEN pc' = "add_first" /\ UNCHANGED result
       ELSE pc' = "panic" /\ result' = "panic: Incorrect hash family!"
    /\ UNCHANGED <<fn, params, state, input, cs, round, cpr, trace, csFail>>
    /\ UNCHANGED <<sponge, squeezed, hash>>

\* lines 127-130: add the constants of round 0; line 132: the loop range
RAddFirst ==
    /\ fn = "rescue" /\ pc = "add_first"
    /\ IF InRange(params, 0)
       THEN /\ state' = AddConstants(state, RoundConstants(0, Len(state)))
            /\ trace' = Append(trace, Log("add_rc", 0))
            /\ calls' = calls \cup {"constants_of_round", "number_of_full_rounds"}
            /\ pc' = "loop"
            /\ round' = 0
            /\ UNCHANGED result
       ELSE /\ pc' = "panic"
            /\ result' = "panic: index out of bounds"
            /\ calls' = calls \cup {"constants_of_round"}
            /\ UNCHANGED <<state, trace, round>>
    /\ UNCHANGED <<fn, params, input, cs, cpr, csFail>>
    /\ UNCHANGED <<sponge, squeezed, hash>>

\* lines 132-148: one iteration of the loop
RRound ==
    /\ fn = "rescue" /\ pc = "loop"
    /\ round < RescueRounds(params)
    /\ LET e == RescueExponent(round)
           mixed == RescueSboxMds(state, round)
           next == RescueNextConstant(round)
           done == <<Log("sbox", e), Log("mds", round)>>
       IN /\ calls' = calls \cup {e, "mds_matrix", "constants_of_round"}
          /\ IF InRange(params, next)
             THEN /\ state' = AddConstants(mixed, RoundConstants(next, Len(state)))
                  /\ trace' = trace \o done \o <<Log("add_rc", next)>>
                  /\ round' = round + 1
                  /\ UNCHANGED <<pc, result>>
             ELSE /\ state' = mixed
                  /\ trace' = trace \o done
                  /\ pc' = "panic"
                  /\ result' = "panic: index out of bounds"
                  /\ UNCHANGED round
    /\ UNCHANGED <<fn, params, input, cs, cpr, csFail>>
    /\ UNCHANGED <<sponge, squeezed, hash>>

\* line 149: the loop is over, the function returns
RReturn ==
    /\ fn = "rescue" /\ pc = "loop"
    /\ round >= RescueRounds(params)
    /\ pc' = "done"
    /\ result' = "()"
    /\ UNCHANGED <<fn, params, state, input, cs, round, cpr, trace, calls, csFail>>
    /\ UNCHANGED <<sponge, squeezed, hash>>

\* the whole permutation as a function of the state (well-formed table)
RECURSIVE RescueRoundsFrom(_, _, _)
RescueRoundsFrom(st, r, n) ==
    IF r >= n THEN st
    ELSE RescueRoundsFrom(
            AddConstants(RescueSboxMds(st, r),
                         RoundConstants(RescueNextConstant(r), Len(st))),
            r + 1, n)

rescue_round_function(p, st) ==
    RescueRoundsFrom(AddConstants(st, RoundConstants(0, Len(st))), 0, RescueRounds(p))

(***************************************************************************)
(* Linear combinations and the constraint system                           *)
(* (franklin_crypto::plonk::circuit).  A linear combination is a constant  *)
(* plus a coefficient for each of its variables; the constraint system     *)
(* holds the witness value of every allocated variable.                    *)
(***************************************************************************)
LcZero == [const |-> 0, terms |-> [v \in {} |-> 0]]

\* LinearCombination::from(variable)
LcVar(v) == [const |-> 0, terms |-> [x \in {v} |-> 1]]

Coef(lc, v) == IF v \in DOMAIN lc.terms THEN lc.terms[v] ELSE 0

\* add_assign_constant
LcAddConstant(lc, c) == [lc EXCEPT !.const = FAdd(@, c)]

LcScale(lc, k) ==
    [const |-> FMul(lc.const, k),
     terms |-> [v \in DOMAIN lc.terms |-> FMul(lc.terms[v], k)]]

LcAdd(a, b) ==
    [const |-> FAdd(a.const, b.const),
     terms |-> [v \in DOMAIN a.terms \cup DOMAIN b.terms |->
                    FAdd(Coef(a, v), Coef(b, v))]]

RECURSIVE TermSum(_, _, _)
TermSum(lc, vals, vs) ==
    IF vs = {} THEN 0
    ELSE LET v == CHOOSE x \in vs : TRUE
         IN FAdd(FMul(lc.terms[v], vals[v]), TermSum(lc, vals, vs \ {v}))

\* the value a linear combination carries under the witness
LcValue(lc, vals) == FAdd(lc.const, TermSum(lc, vals, DOMAIN lc.terms))

Values(st, c) == [i \in DOMAIN st |-> LcValue(st[i], c.vals)]

\* LinearCombination::into_num: a new variable constrained to equal lc
into_num(c, lc) ==
    [cs |-> [vals |-> Append(c.vals, LcValue(lc, c.vals)), gates |-> c.gates + 1],
     var |-> Len(c.vals) + 1]

\* a multiplication gate: a new variable constrained to equal a * b
MulGate(c, a, b) ==
    [cs |-> [vals |-> Append(c.vals, FMul(c.vals[a], c.vals[b])),
             gates |-> c.gates + 1],
     var |-> Len(c.vals) + 1]

(***************************************************************************)
(* Constrained algebraic primitives (circuit::sbox, circuit::utils).       *)
(***************************************************************************)
\* x^5 by square-and-multiply on one lane
SboxQuinticLane(c, lc) ==
    LET base == into_num(c, lc)
        sq == MulGate(base.cs, base.var, base.var)
        quad == MulGate(sq.cs, sq.var, sq.var)
        fifth == MulGate(quad.cs, quad.var, base.var)
    IN [cs |-> fifth.cs, lc |-> LcVar(fifth.var)]

RECURSIVE SboxQuinticFrom(_, _, _, _)
SboxQuinticFrom(c, st, k, n) ==
    IF k > n THEN [cs |-> c, state |-> st]
    ELSE LET r == SboxQuinticLane(c, st[k])
         IN SboxQuinticFrom(r.cs, [st EXCEPT ![k] = r.lc], k + 1, n)

\* sbox_quintic(cs, &mut state[..n])
sbox_quintic(c, st, n) == SboxQuinticFrom(c, st, 1, n)

RECURSIVE LcDot(_, _, _)
\* row[1] * st[1] + ... + row[n] * st[n]
LcDot(row, st, n) ==
    IF n = 0 THEN LcZero
    ELSE LcAdd(LcDot(row, st, n - 1), LcScale(st[n], row[n]))

\* matrix_vector_product: one linear combination per output lane
matrix_vector_product(m, st) == [i \in DOMAIN st |-> LcDot(m[i], st, Len(st))]

\* mul_by_sparse_matrix: dense first row, first column plus diagonal elsewhere
mul_by_sparse_matrix(st, m) ==
    [i \in DOMAIN st |->
        IF i = 1 THEN LcDot(m[1], st, Len(st))
        ELSE LcAdd(LcScale(st[1], m[i][1]), LcScale(st[i], m[i][i]))]

\* for (s, c) in state.iter_mut().zip(c.iter()) { s.add_assign_constant(*c) }
LcAddConstants(st, c) == [i \in DOMAIN st |-> LcAddConstant(st[i], c[i])]

(***************************************************************************)
(* The native Poseidon permutation: Phase A, transition with M-prime,      *)
(* Phase B, Phase C on concrete field values.                              *)
(***************************************************************************)
NativeFullRound(st, i) ==
    mmul_assign(MdsMatrix(Len(st)),
                sbox(5, AddConstants(st, OptimizedRoundConstants(i, Len(st)))))

RECURSIVE NativeFullRounds(_, _, _)
\* full rounds with the constants of indices from..to-1
NativeFullRounds(st, from, to) ==
    IF from >= to THEN st
    ELSE NativeFullRounds(NativeFullRound(st, from), from + 1, to)

NativeSparse(st, m) ==
    [i \in DOMAIN st |->
        IF i = 1 THEN FSum([j \in DOMAIN st |-> FMul(m[1][j], st[j])], Len(st))
        ELSE FAdd(FMul(m[i][1], st[1]), FMul(m[i][i], st[i]))]

\* partial round k of p (zero-based) after h first full rounds
NativePartialRound(st, k, h, p) ==
    LET c == IF k = p - 1 THEN 0
             ELSE OptimizedRoundConstants(h + 1 + k, Len(st))[1]
        s0 == FAdd(FPow(st[1], 5), c)
    IN NativeSparse([st EXCEPT ![1] = s0], SparseMatrix(k, Len(st)))

RECURSIVE NativePartialRounds(_, _, _, _)
NativePartialRounds(st, k, h, p) ==
    IF k >= p THEN st
    ELSE NativePartialRounds(NativePartialRound(st, k, h, p), k + 1, h, p)

poseidon_round_function(f, p, st) ==
    LET h == f \div 2
        a == NativeFullRounds(st, 0, h)
        t == mmul_assign(MPrime(Len(st)),
                         AddConstants(a, OptimizedRoundConstants(h, Len(st))))
        b == NativePartialRounds(t, 0, h, p)
    IN NativeFullRounds(b, h + p, f + p)

(***************************************************************************)
(* gadget_poseidon_round_function                                          *)
(***************************************************************************)
Width == Len(state)
Min(a, b) == IF a < b THEN a ELSE b

\* line 88: let half_of_full_rounds = params.number_of_full_rounds() / 2
HalfOfFullRounds(p) == p.full_rounds \div 2

\* optimized_round_constants[i]: a table entry, tagged with its index
TableEntry(i, w) == [idx |-> i, c |-> OptimizedRoundConstants(i, w)]
ZeroEntry(w) == [idx |-> -1, c |-> [j \in 1..w |-> 0]]

\* lines 115-118: optimized_round_constants[h + 1..h + P].to_vec(), then
\* push([E::Fr::zero(); STATE_WIDTH])
\* (variant: the slice taken from h, no zero pushed)
PartialConstantsFromHalf(p, w) ==
    LET h == HalfOfFullRounds(p)
    IN [k \in 1..p.partial_rounds |-> TableEntry(h + k - 1, w)]
PartialConstants(p, w) ==
    LET h == HalfOfFullRounds(p)
    IN [k \in 1..(p.partial_rounds - 1) |-> TableEntry(h + k, w)]
       \o <<ZeroEntry(w)>>

\* the slice h + 1..h + P exists
SliceInRange(p) ==
    LET h == HalfOfFullRounds(p)
    IN h + 1 <= h + p.partial_rounds /\ h + p.partial_rounds <= p.orc_len

\* lines 147-148: the range of the second full rounds
\* (variant: the range started one index late)
SecondFullFromNext(p) == p.partial_rounds + HalfOfFullRounds(p) + 1
SecondFullFrom(p) == p.partial_rounds + HalfOfFullRounds(p)
SecondFullTo(p) == p.partial_rounds + p.full_rounds

\* slice[..n].chunks(2): number of chunks, length of chunk k (zero-based)
Chunks(n) == (n + 1) \div 2
ChunkLen(n, k) == Min(2, n - 2 * k)

\* lines 121-124: the zip of the two chunk iterators
PairIterations(p) == Min(Chunks(Len(cpr) - 1), Chunks(p.sparse_len - 1))

Err(step) ==
    /\ pc' = "err"
    /\ result' = "Err(SynthesisError)"
    /\ csFail' = step

Panic(msg) ==
    /\ pc' = "panic"
    /\ result' = msg

\* lines 81-85: assert_eq!(params.hash_family(), HashFamily::Poseidon)
\* (variant: the parameters loaded before the assertion)
PAssertFamilyAfterLoad ==
    /\ fn = "poseidon" /\ pc = "start"
    /\ calls' = calls \cup {"hash_family", "number_of_full_rounds",
                            "optimized_mds_matrixes", "optimized_round_constants"}
    /\ IF params.family = "Poseidon"
       THEN pc' = "assert_even" /\ UNCHANGED result
       ELSE Panic("panic: Incorrect hash family!")
    /\ UNCHANGED <<fn, params, state, input, cs, round, cpr, trace, csFail>>
    /\ UNCHANGED <<sponge, squeezed, hash>>

PAssertFamily ==
    /\ fn = "poseidon" /\ pc = "start"
    /\ calls' = calls \cup {"hash_family"}
    /\ IF params.family = "Poseidon"
       THEN pc' = "assert_even" /\ UNCHANGED result
       ELSE Panic("panic: Incorrect hash family!")
    /\ UNCHANGED <<fn, params, state, input, cs, round, cpr, trace, csFail>>
    /\ UNCHANGED <<sponge, squeezed, hash>>

\* line 86: assert!(params.number_of_full_rounds() % 2 == 0)
PAssertEven ==
    /\ fn = "poseidon" /\ pc = "assert_even"
    /\ calls' = calls \cup {"number_of_full_rounds"}
    /\ IF params.full_rounds % 2 = 0
       THEN pc' = "load" /\ UNCHANGED result
       ELSE Panic("panic: assertion failed: number_of_full_rounds % 2 == 0")
    /\ UNCHANGED <<fn, params, state, input, cs, round, cpr, trace, csFail>>
    /\ UNCHANGED <<sponge, squeezed, hash>>

\* lines 88-91: half_of_full_rounds, optimized matrixes and constants
PLoadParams ==
    /\ fn = "poseidon" /\ pc = "load"
    /\ calls' = calls \cup {"number_of_full_rounds", "optimized_mds_matrixes",
                            "optimized_round_constants"}
    /\ pc' = "first_full"
    /\ round' = 0
    /\ UNCHANGED <<fn, params, state, input, cs, cpr, trace, csFail, result>>
    /\ UNCHANGED <<sponge, squeezed, hash>>

\* lines 95-105 and 150-160: one full round with the constants of index round
FullRound ==
    IF round >= params.orc_len
    THEN /\ Panic("panic: index out of bounds")
         /\ UNCHANGED <<state, cs, round, trace, calls, csFail>>
    ELSE LET added == LcAddConstants(state, OptimizedRoundConstants(round, Width))
             sb == sbox_quintic(cs, added, Width)
             prod == matrix_vector_product(MdsMatrix(Width), sb.state)
         IN \E outcome \in {"ok", "sbox", "mds"} :
              IF outcome = "sbox"
              THEN /\ Err("sbox_quintic (full round)")
                   /\ state' = added
                   /\ trace' = Append(trace, Log("add_rc", round))
                   /\ UNCHANGED <<cs, round, calls>>
              ELSE IF outcome = "mds"
              THEN /\ Err("matrix_vector_product (mds)")
                   /\ state' = sb.state
                   /\ cs' = sb.cs
                   /\ trace' = trace \o <<Log("add_rc", round), Log("sbox_full", round)>>
                   /\ calls' = calls \cup {"mds_matrix"}
                   /\ UNCHANGED round
              ELSE /\ state' = prod
                   /\ cs' = sb.cs
                   /\ trace' = trace \o <<Log("add_rc", round), Log("sbox_full", round),
                                          Log("mds", round)>>
                   /\ calls' = calls \cup {"mds_matrix"}
                   /\ round' = round + 1
                   /\ UNCHANGED <<pc, result, csFail>>

\* lines 94-106: first full rounds
PFirstFullRound ==
    /\ fn = "poseidon" /\ pc = "first_full"
    /\ round < HalfOfFullRounds(params)
    /\ FullRound
    /\ UNCHANGED <<fn, params, input, cpr>>
    /\ UNCHANGED <<sponge, squeezed, hash>>

\* lines 108-113: add the next constants, multiply by m_prime
PTransition ==
    /\ fn = "poseidon" /\ pc = "first_full"
    /\ round >= HalfOfFullRounds(params)
    /\ LET h == HalfOfFullRounds(params)
           added == LcAddConstants(state, OptimizedRoundConstants(h, Width))
       IN IF h >= params.orc_len
          THEN /\ Panic("panic: index out of bounds")
               /\ UNCHANGED <<state, trace, csFail>>
          ELSE \E ok \in BOOLEAN :
                 IF ok
                 THEN /\ state' = matrix_vector_product(MPrime(Width), added)
                      /\ trace' = trace \o <<Log("add_rc", h), Log("m_prime", h)>>
                      /\ pc' = "slice"
                      /\ UNCHANGED <<result, csFail>>
                 ELSE /\ Err("matrix_vector_product (m_prime)")
                      /\ state' = added
                      /\ trace' = Append(trace, Log("add_rc", h))
    /\ UNCHANGED <<fn, params, input, cs, round, cpr, calls>>
    /\ UNCHANGED <<sponge, squeezed, hash>>

\* lines 115-118: constants_for_partial_rounds
PSliceConstants ==
    /\ fn = "poseidon" /\ pc = "slice"
    /\ calls' = calls \cup {"number_of_partial_rounds"}
    /\ IF SliceInRange(params)
       THEN /\ cpr' = PartialConstants(params, Width)
            /\ pc' = "pairs"
            /\ round' = 0
            /\ UNCHANGED result
       ELSE /\ Panic("panic: slice index out of range")
            /\ UNCHANGED <<cpr, round>>
    /\ UNCHANGED <<fn, params, state, input, cs, trace, csFail>>
    /\ UNCHANGED <<sponge, squeezed, hash>>

\* lines 127-129 and 132-134: the S-box on lane 0 alone
PartialSbox == sbox_quintic(cs, state, 1)

\* state[0].add_assign_constant(c); *state = mul_by_sparse_matrix(state, m)
PartialLinear(st, c, k) ==
    mul_by_sparse_matrix([st EXCEPT ![1] = LcAddConstant(@, c)],
                         SparseMatrix(k, Len(st)))

PartialLog(entry, k) ==
    <<Log("sbox_first", k), Log("add_rc0", entry.idx), Log("sparse", k)>>

\* lines 126-129: first partial round of a pair
PPairFirst ==
    /\ fn = "poseidon" /\ pc = "pairs"
    /\ round < PairIterations(params)
    /\ LET sb == PartialSbox
           entry == cpr[2 * round + 1]
       IN \E ok \in BOOLEAN :
            IF ok
            THEN /\ cs' = sb.cs
                 /\ state' = PartialLinear(sb.state, entry.c[1], 2 * round)
                 /\ trace' = trace \o PartialLog(entry, 2 * round)
                 /\ pc' = "pair_second"
                 /\ UNCHANGED <<result, csFail>>
            ELSE /\ Err("sbox_quintic (partial round)")
                 /\ UNCHANGED <<cs, state, trace>>
    /\ UNCHANGED <<fn, params, input, round, cpr, calls>>
    /\ UNCHANGED <<sponge, squeezed, hash>>

\* lines 131-134: second partial round of a pair
PPairSecond ==
    /\ fn = "poseidon" /\ pc = "pair_second"
    /\ LET sb == PartialSbox
           k == 2 * round + 1
       IN \E ok \in BOOLEAN :
            IF ~ok
            THEN /\ Err("sbox_quintic (partial round)")
                 /\ UNCHANGED <<cs, state, trace>>
            ELSE IF ChunkLen(Len(cpr) - 1, round) < 2
            THEN \* round_constant[1]
                 /\ Panic("panic: index out of bounds")
                 /\ cs' = sb.cs
                 /\ state' = sb.state
                 /\ trace' = Append(trace, Log("sbox_first", k))
                 /\ UNCHANGED csFail
            ELSE IF ChunkLen(params.sparse_len - 1, round) < 2
            THEN \* sparse_matrix[1]
                 /\ Panic("panic: index out of bounds")
                 /\ cs' = sb.cs
                 /\ state' = [sb.state EXCEPT ![1] = LcAddConstant(@, cpr[k + 1].c[1])]
                 /\ trace' = trace \o <<Log("sbox_first", k),
                                        Log("add_rc0", cpr[k + 1].idx)>>
                 /\ UNCHANGED csFail
            ELSE /\ cs' = sb.cs
                 /\ state' = PartialLinear(sb.state, cpr[k + 1].c[1], k)
                 /\ trace' = trace \o PartialLog(cpr[k + 1], k)
                 /\ pc' = "materialize"
                 /\ UNCHANGED <<result, csFail>>
    /\ UNCHANGED <<fn, params, input, round, cpr, calls>>
    /\ UNCHANGED <<sponge, squeezed, hash>>

RECURSIVE MaterializeFrom(_, _, _)
MaterializeFrom(c, st, k) ==
    IF k > Len(st) THEN [cs |-> c, state |-> st]
    ELSE LET num == into_num(c, st[k])
         IN MaterializeFrom(num.cs, [st EXCEPT ![k] = LcVar(num.var)], k + 1)

\* lines 136-139: for state in state.iter_mut() { LC -> Num -> LC }
\* (variant: lane 0 alone is materialized)
MaterializeFirstLaneOnly(c, st) ==
    LET num == into_num(c, st[1])
    IN [cs |-> num.cs, state |-> [st EXCEPT ![1] = LcVar(num.var)]]
Materialize(c, st) == MaterializeFrom(c, st, 1)

\* lines 135-139: into_num(cs).expect("a num") on every lane
PMaterialize ==
    /\ fn = "poseidon" /\ pc = "materialize"
    /\ LET m == Materialize(cs, state)
       IN \E ok \in BOOLEAN :
            IF ok
            THEN /\ cs' = m.cs
                 /\ state' = m.state
                 /\ trace' = Append(trace, Log("materialize", round))
                 /\ pc' = "pairs"
                 /\ round' = round + 1
                 /\ UNCHANGED <<result, csFail>>
            ELSE /\ Panic("panic: a num: SynthesisError")
                 /\ csFail' = "into_num"
                 /\ UNCHANGED <<cs, state, trace, round>>
    /\ UNCHANGED <<fn, params, input, cpr, calls>>
    /\ UNCHANGED <<sponge, squeezed, hash>>

\* lines 142-144: the last partial round, with the pushed zero constant
PLastPartial ==
    /\ fn = "poseidon" /\ pc = "pairs"
    /\ round >= PairIterations(params)
    /\ LET sb == PartialSbox
           k == params.sparse_len - 1
       IN \E ok \in BOOLEAN :
            IF ok
            THEN /\ cs' = sb.cs
                 /\ state' = PartialLinear(sb.state, cpr[Len(cpr)].c[1], k)
                 /\ trace' = trace \o PartialLog(cpr[Len(cpr)], k)
                 /\ calls' = calls \cup {"number_of_partial_rounds",
                                         "number_of_full_rounds"}
                 /\ pc' = "second_full"
                 /\ round' = SecondFullFrom(params)
                 /\ UNCHANGED <<result, csFail>>
            ELSE /\ Err("sbox_quintic (partial round)")
                 /\ UNCHANGED <<cs, state, trace, calls, round>>
    /\ UNCHANGED <<fn, params, input, cpr>>
    /\ UNCHANGED <<sponge, squeezed, hash>>

\* lines 147-161: second full rounds
PSecondFullRound ==
    /\ fn = "poseidon" /\ pc = "second_full"
    /\ round < SecondFullTo(params)
    /\ FullRound
    /\ UNCHANGED <<fn, params, input, cpr>>
    /\ UNCHANGED <<sponge, squeezed, hash>>

\* line 163: Ok(())
PReturn ==
    /\ fn = "poseidon" /\ pc = "second_full"
    /\ round >= SecondFullTo(params)
    /\ pc' = "done"
    /\ result' = "Ok(())"
    /\ UNCHANGED <<fn, params, state, input, cs, round, cpr, trace, calls, csFail>>
    /\ UNCHANGED <<sponge, squeezed, hash>>

(***************************************************************************)
(* One call of a round function.                                           *)
(***************************************************************************)
Families == {"Rescue", "Poseidon"}

Inputs(w) == [1..w -> 0..MaxInput]

\* the parameter sets handed to rescue_round_function: any table length
RescueParamSets ==
    {[family |-> f, full_rounds |-> n, partial_rounds |-> 0, rc_len |-> l,
      orc_len |-> 0, sparse_len |-> 0] :
        f \in Families, n \in 0..MaxFull, l \in 0..(2 * MaxFull + 2)}

\* the parameter sets handed to gadget_poseidon_round_function: P sparse
\* matrixes and F + P optimized constant vectors
PoseidonParamSets ==
    {[family |-> f, full_rounds |-> n, partial_rounds |-> p, rc_len |-> n + p + 1,
      orc_len |-> n + p, sparse_len |-> p] :
        f \in Families, n \in 0..MaxFull, p \in 1..MaxPartial}

IdleSponge == [width |-> 0, rate |-> 0, state |-> <<>>, buf |-> <<>>,
               absorbed |-> 0, mode |-> "idle"]
IdleSqueezed == [calls |-> 0, request |-> -1, out |-> <<>>, permutations |-> 0]
IdleRound ==
    /\ fn = "none" /\ pc = "idle" /\ params = <<>> /\ state = <<>> /\ input = <<>>
    /\ cs = [vals |-> <<>>, gates |-> 0] /\ round = 0 /\ cpr = <<>>
    /\ trace = <<>> /\ calls = {} /\ csFail = "none" /\ result = "none"
IdleHash == <<>>

InitRescue ==
    /\ fn = "rescue"
    /\ params \in RescueParamSets
    /\ input \in Inputs(STATE_WIDTH)
    /\ state = input
    /\ cs = [vals |-> <<>>, gates |-> 0]

InitPoseidon ==
    /\ fn = "poseidon"
    /\ params \in PoseidonParamSets
    /\ input \in Inputs(STATE_WIDTH)
    /\ state = [i \in 1..STATE_WIDTH |-> LcVar(i)]
    /\ cs = [vals |-> input, gates |-> 0]

InitRound ==
    /\ (InitRescue \/ InitPoseidon)
    /\ pc = "start"
    /\ round = 0
    /\ cpr = <<>>
    /\ trace = <<>>
    /\ calls = {}
    /\ csFail = "none"
    /\ result = "running"
    /\ sponge = IdleSponge
    /\ squeezed = IdleSqueezed
    /\ hash = IdleHash

NextRound ==
    \/ RAssert \/ RAddFirst \/ RRound \/ RReturn
    \/ PAssertFamily \/ PAssertEven \/ PLoadParams \/ PFirstFullRound
    \/ PTransition \/ PSliceConstants \/ PPairFirst \/ PPairSecond
    \/ PMaterialize \/ PLastPartial \/ PSecondFullRound \/ PReturn

SpecRound == InitRound /\ [][NextRound]_vars

(***************************************************************************)
(* Properties of the round functions (SpecRound).                          *)
(***************************************************************************)
EntryState == IF fn = "rescue" THEN input ELSE [i \in 1..Len(input) |-> LcVar(i)]
EntryCs == IF fn = "rescue" THEN [vals |-> <<>>, gates |-> 0]
           ELSE [vals |-> input, gates |-> 0]

Terminated == pc \in {"done", "err", "panic"}

Idx(seq) == [i \in DOMAIN seq |-> seq[i].idx]
Ops(t, op) == Idx(SelectSeq(t, LAMBDA e : e.op = op))
Range(a, b) == [i \in 1..(b - a + 1) |-> a + i - 1]

WellFormedRescue ==
    /\ fn = "rescue"
    /\ params.family = "Rescue"
    /\ params.rc_len = 2 * params.full_rounds + 1

WellFormedPoseidon ==
    /\ fn = "poseidon"
    /\ params.family = "Poseidon"
    /\ params.full_rounds % 2 = 0
    /\ params.partial_rounds >= 1
    /\ params.sparse_len = params.partial_rounds
    /\ params.orc_len = params.full_rounds + params.partial_rounds

\* C2: whenever the constraint system fails at any step of
\* gadget_poseidon_round_function, the call returns Err(SynthesisError); it
\* never panics on the failure.
C2_SynthesisErrorReturned ==
    csFail # "none" => (pc = "err" /\ result = "Err(SynthesisError)")

PreconditionViolated ==
    \/ fn = "rescue" /\ params.family # "Rescue"
    \/ fn = "poseidon" /\ (params.family # "Poseidon" \/ params.full_rounds % 2 # 0)

\* C4: a round function called with a parameter set that violates its
\* precondition panics as its first action: it never gets past its
\* assertions, the state and the constraint system are as they were at
\* entry, and no family-inapplicable accessor has been called.
C4_PreconditionPanicsFirst ==
    PreconditionViolated =>
        /\ pc \in {"start", "assert_even", "panic"}
        /\ pc = "panic" => result \in
               {"panic: Incorrect hash family!",
                "panic: assertion failed: number_of_full_rounds % 2 == 0"}
        /\ state = EntryState
        /\ cs = EntryCs
        /\ trace = <<>>
        /\ calls \cap InapplicableAccessors = {}

C4_Witness ==
    /\ fn = "poseidon" /\ pc = "panic"
    /\ params.family = "Poseidon" /\ params.full_rounds % 2 = 1
    /\ \E i \in DOMAIN input : input[i] # 0

C6_PartialRoundsComplete ==
    (WellFormedPoseidon /\ csFail = "none") =>
        /\ pc # "panic"
        /\ pc \in {"second_full", "done"} =>
              /\ Ops(trace, "sbox_first") = Range(0, params.partial_rounds - 1)
              /\ Ops(trace, "sparse") = Range(0, params.partial_rounds - 1)

ExpectedRescueTrace(n) ==
    [i \in 1..(6 * n + 1) |->
        IF i = 1 THEN Log("add_rc", 0)
        ELSE LET r == (i - 2) \div 3
                 j == (i - 2) % 3
             IN IF j = 0 THEN Log("sbox", IF r % 2 = 0 THEN "alpha_inv" ELSE "alpha")
                ELSE IF j = 1 THEN Log("mds", r)
                ELSE Log("add_rc", r + 1)]

\* C7: on a well-formed Rescue parameter set with N full rounds,
\* rescue_round_function never fails and, when it returns, has added the
\* constants of round 0 and then, for r = 0..2N-1 in order, applied the S-box
\* (alpha_inv for even r, alpha for odd r), the MDS product and the constants
\* of round r + 1: 2N + 1 constant vectors, each read once, in order.
C7_RescueSchedule ==
    WellFormedRescue =>
        /\ pc # "panic"
        /\ pc = "loop" => round <= 2 * params.full_rounds
        /\ pc = "done" =>
              /\ trace = ExpectedRescueTrace(params.full_rounds)
              /\ Ops(trace, "add_rc") = Range(0, 2 * params.full_rounds)
              /\ Len(Ops(trace, "mds")) = 2 * params.full_rounds

C7_Witness ==
    /\ WellFormedRescue /\ pc = "done"
    /\ params.full_rounds >= 2
    /\ \E i \in DOMAIN input : input[i] # 0

\* C8 as stated: rescue_round_function returns normally exactly when the
\* table has 2N + 1 entries, and dies on an out-of-range read otherwise.
C8_ExactLength ==
    (fn = "rescue" /\ params.family = "Rescue" /\ Terminated) =>
        (pc = "done" <=> params.rc_len = 2 * params.full_rounds + 1)

\* C8 amended: rescue_round_function dies on an out-of-range read exactly
\* when the table has fewer than 2N + 1 entries; with 2N + 1 entries or more
\* it returns normally, and never reads an index above 2N.
C8_AtLeastLength ==
    (fn = "rescue" /\ params.family = "Rescue") =>
        /\ Terminated =>
              (pc = "done" <=> params.rc_len >= 2 * params.full_rounds + 1)
        /\ pc = "panic" =>
              /\ result = "panic: index out of bounds"
              /\ params.rc_len < 2 * params.full_rounds + 1
        /\ \A i \in DOMAIN Ops(trace, "add_rc") :
              /\ Ops(trace, "add_rc")[i] <= 2 * params.full_rounds
              /\ Ops(trace, "add_rc")[i] < params.rc_len

C8_Witness ==
    /\ fn = "rescue" /\ params.family = "Rescue"
    /\ pc = "panic" /\ result = "panic: index out of bounds"
    /\ params.rc_len = 2 * params.full_rounds
    /\ params.full_rounds >= 1

RECURSIVE SparseSinceMaterialize(_)
\* the number of sparse products since the last materialization
SparseSinceMaterialize(t) ==
    IF t = <<>> \/ t[Len(t)].op = "materialize" THEN 0
    ELSE (IF t[Len(t)].op = "sparse" THEN 1 ELSE 0)
         + SparseSinceMaterialize(SubSeq(t, 1, Len(t) - 1))

\* C9: right after every pair of partial rounds every lane is exactly one
\* freshly allocated variable with coefficient one and no constant term, and
\* while pairs are processed no lane holds more than two sparse products
\* that have not been materialized.
C9_MaterializedAfterPair ==
    fn = "poseidon" =>
        /\ (pc = "pairs" /\ round >= 1) =>
              \A i \in DOMAIN state :
                  /\ state[i].const = 0
                  /\ DOMAIN state[i].terms = {Len(cs.vals) - Len(state) + i}
                  /\ \A v \in DOMAIN state[i].terms : state[i].terms[v] = 1
        /\ (pc = "pairs" /\ round >= 1) => SparseSinceMaterialize(trace) = 0
        /\ pc \in {"pairs", "pair_second", "materialize"} =>
              SparseSinceMaterialize(trace) <= 2

C9_Witness ==
    /\ fn = "poseidon" /\ pc = "pairs" /\ round = 2
    /\ Len(Ops(trace, "materialize")) = 2

ConstantReads(t) ==
    Idx(SelectSeq(t, LAMBDA e : e.op \in {"add_rc", "add_rc0"} /\ e.idx >= 0))

\* C10: a complete run of gadget_poseidon_round_function reads the optimized
\* constants of indices 0..F+P-1, each once, in increasing order and none
\* beyond: 0..h-1 in Phase A, h in the transition, h+1..h+P-1 in the first
\* P-1 partial rounds (the last one adds zero), h+P..F+P-1 in Phase C; Phase
\* A and Phase C run h full rounds each.
C10_ConstantSchedule ==
    (fn = "poseidon" /\ pc = "done") =>
        LET f == params.full_rounds
            p == params.partial_rounds
            h == f \div 2
        IN /\ ConstantReads(trace) = Range(0, f + p - 1)
           /\ Ops(trace, "add_rc") = Range(0, h) \o Range(h + p, f + p - 1)
           /\ Ops(trace, "add_rc0") = Range(h + 1, h + p - 1) \o <<-1>>
           /\ Ops(trace, "sbox_full") = Range(0, h - 1) \o Range(h + p, f + p - 1)
           /\ Ops(trace, "m_prime") = <<h>>

C10_Witness ==
    /\ fn = "poseidon" /\ pc = "done"
    /\ params.full_rounds = 4 /\ params.partial_rounds = 5

(***************************************************************************)
(* GenericSponge: absorb and squeeze.                                      *)
(***************************************************************************)
\* the parameter set of the sponge's permutation
SpongeParams ==
    [family |-> "Rescue", full_rounds |-> 1, partial_rounds |-> 0, rc_len |-> 3,
     orc_len |-> 0, sparse_len |-> 0]

Permute(st) == rescue_round_function(SpongeParams, st)

\* the buffered block added into the rate lanes
AddBlock(st, block) ==
    [i \in DOMAIN st |-> IF i <= Len(block) THEN FAdd(st[i], block[i]) ELSE st[i]]

RECURSIVE AbsorbFrom(_, _, _)
\* absorb(elements): buffer each element; a full buffer of RATE elements is
\* added into the rate lanes, the permutation is applied, the buffer cleared
AbsorbFrom(sp, elements, k) ==
    IF k > Len(elements) THEN sp
    ELSE LET buf == Append(sp.buf, elements[k])
             next == IF Len(buf) = sp.rate
                     THEN [sp EXCEPT !.state = Permute(AddBlock(sp.state, buf)),
                                     !.buf = <<>>,
                                     !.absorbed = @ + 1]
                     ELSE [sp EXCEPT !.buf = buf, !.absorbed = @ + 1]
         IN AbsorbFrom(next, elements, k + 1)

absorb(sp, elements) == AbsorbFrom(sp, elements, 1)

\* (variant: whole blocks of RATE lanes, no truncation)
RECURSIVE SqueezeWholeBlocksFrom(_, _, _, _, _)
SqueezeWholeBlocksFrom(st, rate, out, n, perms) ==
    IF Len(out) >= n THEN [out |-> out, state |-> st, permutations |-> perms]
    ELSE LET out2 == out \o SubSeq(st, 1, rate)
         IN IF Len(out2) < n
            THEN SqueezeWholeBlocksFrom(Permute(st), rate, out2, n, perms + 1)
            ELSE [out |-> out2, state |-> st, permutations |-> perms]

RECURSIVE SqueezeFrom(_, _, _, _, _)
\* read up to RATE lanes of the state; permute again while more are needed
SqueezeFrom(st, rate, out, n, perms) ==
    IF Len(out) >= n THEN [out |-> out, state |-> st, permutations |-> perms]
    ELSE LET out2 == out \o SubSeq(st, 1, Min(rate, n - Len(out)))
         IN IF Len(out2) < n
            THEN SqueezeFrom(Permute(st), rate, out2, n, perms + 1)
            ELSE [out |-> out2, state |-> st, permutations |-> perms]

\* squeeze(requested): None is written -1 and asks for RATE elements
squeeze_whole_blocks(sp, requested) ==
    SqueezeWholeBlocksFrom(sp.state, sp.rate, <<>>,
                           IF requested = -1 THEN sp.rate ELSE requested, 0)
squeeze(sp, requested) ==
    SqueezeFrom(sp.state, sp.rate, <<>>,
                IF requested = -1 THEN sp.rate ELSE requested, 0)

RECURSIVE SeqsUpTo(_, _)
\* the sequences over S of length n at most
SeqsUpTo(S, n) ==
    IF n = 0 THEN {<<>>}
    ELSE LET shorter == SeqsUpTo(S, n - 1)
         IN shorter \cup {Append(q, x) : q \in shorter, x \in S}

SpAbsorb ==
    /\ sponge.mode = "absorbing"
    /\ \E elements \in SeqsUpTo(0..MaxElem, MaxChunk) \ {<<>>} :
          /\ sponge.absorbed + Len(elements) <= MaxAbsorbed
          /\ sponge' = absorb(sponge, elements)
    /\ UNCHANGED <<squeezed, hash>>
    /\ UNCHANGED roundVars

SpSqueeze ==
    /\ sponge.mode = "absorbing"
    /\ \E requested \in {-1} \cup 0..MaxSqueeze :
          IF sponge.buf # <<>>
          THEN \* input that is not a multiple of RATE
               /\ sponge' = [sponge EXCEPT !.mode = "panic"]
               /\ UNCHANGED squeezed
          ELSE LET r == squeeze(sponge, requested)
               IN /\ sponge' = [sponge EXCEPT !.state = r.state, !.mode = "squeezed"]
                  /\ squeezed' = [calls |-> squeezed.calls + 1, request |-> requested,
                                  out |-> r.out, permutations |-> r.permutations]
    /\ UNCHANGED hash
    /\ UNCHANGED roundVars

InitSponge ==
    /\ \E w \in 2..MaxWidth : \E r \in 1..(w - 1) :
          sponge = [width |-> w, rate |-> r, state |-> [i \in 1..w |-> 0],
                    buf |-> <<>>, absorbed |-> 0, mode |-> "absorbing"]
    /\ squeezed = IdleSqueezed
    /\ hash = IdleHash
    /\ IdleRound

NextSponge == SpAbsorb \/ SpSqueeze

SpecSponge == InitSponge /\ [][NextSponge]_vars

\* C1: after absorb calls whose total length is a multiple of RATE,
\* squeeze(None) returns exactly RATE elements and squeeze(Some(n)) exactly n
\* elements: for n > RATE the permutation is applied again each time RATE
\* elements have been read and more are needed, for n < RATE the surplus lanes
\* are dropped.
C1_SqueezeLength ==
    (sponge.mode = "squeezed" /\ sponge.absorbed % sponge.rate = 0) =>
        LET n == IF squeezed.request = -1 THEN sponge.rate ELSE squeezed.request
        IN /\ Len(squeezed.out) = n
           /\ squeezed.permutations =
                 IF n = 0 THEN 0 ELSE (n + sponge.rate - 1) \div sponge.rate - 1

C1_Witness ==
    /\ sponge.mode = "squeezed"
    /\ sponge.rate = 2 /\ sponge.absorbed = 4
    /\ squeezed.request = 5 /\ squeezed.permutations = 2
    /\ \E i \in DOMAIN squeezed.out : squeezed.out[i] # 0

(***************************************************************************)
(* Fixed-length hash entry points (rescue_hash, generic_rescue_hash,       *)
(* gadget_poseidon_hash): generic_hash with the length-aware domain        *)
(* strategy, STATE_WIDTH = 3 and RATE = 2.                                 *)
(***************************************************************************)
\* the declared length as a field element
LengthToField(l) == l % Modulus

\* the number of elements after padding: the next multiple of RATE
PaddedLength(l) == ((l + RATE - 1) \div RATE) * RATE

\* the value the capacity lane is seeded with
\* (variant: the padded length)
CapacitySeedPadded(l) == LengthToField(PaddedLength(l))
CapacitySeed(l) == LengthToField(l)

\* the input followed by the sentinel up to a multiple of RATE
Pad(in) == in \o [i \in 1..(PaddedLength(Len(in)) - Len(in)) |-> PadValue]

\* the state before absorbing: rate lanes zero, capacity lane seeded
SeededState(l) ==
    [i \in 1..STATE_WIDTH |-> IF i <= RATE THEN 0 ELSE CapacitySeed(l)]

HashSponge(st) ==
    [width |-> STATE_WIDTH, rate |-> RATE, state |-> st, buf |-> <<>>,
     absorbed |-> 0, mode |-> "absorbing"]

HashCall(in) ==
    [L |-> Len(in), input |-> in, pc |-> "start", initial |-> <<>>,
     padded |-> <<>>, state |-> <<>>, out |-> <<>>]

\* call k runs when the calls before it have returned
Turn(k) == \A j \in 1..(k - 1) : hash[j].pc = "done"

HSeed(k) ==
    /\ Turn(k) /\ hash[k].pc = "start"
    /\ hash' = [hash EXCEPT ![k].initial = SeededState(hash[k].L),
                            ![k].state = SeededState(hash[k].L),
                            ![k].pc = "seeded"]
    /\ UNCHANGED <<sponge, squeezed>>
    /\ UNCHANGED roundVars

HPadAbsorb(k) ==
    /\ hash[k].pc = "seeded"
    /\ LET padded == Pad(hash[k].input)
       IN hash' = [hash EXCEPT ![k].padded = padded,
                               ![k].state = absorb(HashSponge(hash[k].state), padded).state,
                               ![k].pc = "absorbed"]
    /\ UNCHANGED <<sponge, squeezed>>
    /\ UNCHANGED roundVars

HSqueeze(k) ==
    /\ hash[k].pc = "absorbed"
    /\ hash' = [hash EXCEPT ![k].out = squeeze(HashSponge(hash[k].state), -1).out,
                            ![k].pc = "done"]
    /\ UNCHANGED <<sponge, squeezed>>
    /\ UNCHANGED roundVars

HashInputs == SeqsUpTo(0..MaxInput, MaxLen)

InitHash ==
    /\ \E a \in HashInputs : \E b \in HashInputs : hash = <<HashCall(a), HashCall(b)>>
    /\ sponge = IdleSponge
    /\ squeezed = IdleSqueezed
    /\ IdleRound

NextHash == \E k \in 1..2 : HSeed(k) \/ HPadAbsorb(k) \/ HSqueeze(k)

SpecHash == InitHash /\ [][NextHash]_vars

Capacity(st) == SubSeq(st, RATE + 1, STATE_WIDTH)

\* C3: a fixed-length hash seeds the capacity lane with the declared length
\* before absorbing and pads the input with the sentinel up to a multiple of
\* RATE; two calls with different declared lengths start from different
\* capacity seeds, also when their padded inputs are equal.
C3_CapacitySeedsDiffer ==
    /\ \A k \in 1..2 : hash[k].pc # "start" =>
          /\ Capacity(hash[k].initial) = <<LengthToField(hash[k].L)>>
          /\ SubSeq(hash[k].initial, 1, RATE) = [i \in 1..RATE |-> 0]
    /\ \A k \in 1..2 : hash[k].pc \in {"absorbed", "done"} =>
          /\ Len(hash[k].padded) % RATE = 0
          /\ Len(hash[k].padded) < hash[k].L + RATE
          /\ SubSeq(hash[k].padded, 1, hash[k].L) = hash[k].input
          /\ \A i \in (hash[k].L + 1)..Len(hash[k].padded) :
                hash[k].padded[i] = PadValue
    /\ (hash[1].pc # "start" /\ hash[2].pc # "start" /\ hash[1].L # hash[2].L) =>
          Capacity(hash[1].initial) # Capacity(hash[2].initial)

C3_Witness ==
    /\ hash[1].pc = "done" /\ hash[2].pc = "done"
    /\ hash[1].L # hash[2].L
    /\ hash[1].padded = hash[2].padded
    /\ \E i \in DOMAIN hash[1].input : hash[1].input[i] # 0

====
